---- MODULE Spec2Model ----
(***************************************************************************)
(* Model of the google-calendar-analyzer report engine                     *)
(* (google_calendar/api.py: ReportCalculator) together with the ingestion  *)
(* steps that fill the Event/Attendee store (google_calendar/scraper.py).  *)
(*                                                                         *)
(* Instants are whole seconds since 2019-01-01T00:00:00Z.  Text (summary,  *)
(* search, responseStatus) is a sequence of one-character strings, so that *)
(* the case folding done by the code is computed and not assumed.          *)
(***************************************************************************)
EXTENDS Integers, Sequences, FiniteSets, TLC

VARIABLES
    store,        \* rows of the Event table, each with its Attendee rows
    time_zone,    \* UserMetaData.time_zone of each user ("" = unset)
    clock,        \* the wall clock (an instant)
    calc,         \* the ReportCalculator instance of the current request
    pc,           \* the report method the instance is in the middle of
    ne_result,    \* what number_of_events() last returned on the instance
    ts_result,    \* what time_spent() last returned on the instance
    att_result,   \* what attendee() last returned on the instance
    late_write,   \* a store write has committed since the instance was built
    served_stale, \* a repeated report call was answered from a memoized view
                  \* that a fresh query would no longer produce (observation)
    scrape        \* the calls into scraper.py in progress, one per request slot

vars == <<store, time_zone, clock, calc, pc, ne_result, ts_result, att_result,
          late_write, served_stale, scrape>>

(***************************************************************************)
(* Bounds                                                                  *)
(***************************************************************************)
\* rows the Event table may hold when create_event is called on its own
MaxEvents == 3

(***************************************************************************)
(* Arithmetic helpers                                                      *)
(***************************************************************************)
RECURSIVE SumOver(_, _)
\* Sum of f[x] over the finite set S.
SumOver(S, f) ==
    IF S = {} THEN 0
    ELSE LET x == CHOOSE y \in S : TRUE
         IN  f[x] + SumOver(S \ {x}, f)

Abs(n) == IF n < 0 THEN -n ELSE n

RECURSIVE Pow2(_)
Pow2(n) == IF n <= 0 THEN 1 ELSE 2 * Pow2(n - 1)

RECURSIVE FloorLog2Up(_, _, _)
\* For num >= den: the e >= 0 with 2^e <= num/den < 2^(e+1), searching from e.
FloorLog2Up(num, den, e) ==
    IF num < den * Pow2(e + 1) THEN e ELSE FloorLog2Up(num, den, e + 1)

RECURSIVE FloorLog2Down(_, _, _)
\* For num < den: the least k > 0 with num * 2^k >= den, searching from k.
FloorLog2Down(num, den, k) ==
    IF num * Pow2(k) >= den THEN k ELSE FloorLog2Down(num, den, k + 1)

\* The binary exponent of the positive rational num/den: the e with
\* 2^e <= num/den < 2^(e+1).
FloorLog2(num, den) ==
    IF num >= den THEN FloorLog2Up(num, den, 0) ELSE 0 - FloorLog2Down(num, den, 1)

\* Round the rational num/den (den > 0) to an integer, halves to the even
\* neighbour: what Python's round() and numpy.round() do.
RoundHalfEven(num, den) ==
    LET q == num \div den
        r == num - q * den
    IN  IF 2 * r < den THEN q
        ELSE IF 2 * r > den THEN q + 1
        ELSE IF q % 2 = 0 THEN q ELSE q + 1

\* Decimal text of n with at least two digits (the format spec ":02").
Pad2(n) == IF n >= 0 /\ n < 10 THEN "0" \o ToString(n) ELSE ToString(n)

(***************************************************************************)
(* Calendar: datetime / pytz / dateutil                                    *)
(***************************************************************************)
SecondsPerHour == 60 * 60
SecondsPerDay == 24 * SecondsPerHour

IsLeap(y) == (y % 4 = 0 /\ y % 100 # 0) \/ y % 400 = 0

DaysInMonth(y, m) ==
    IF m = 2 THEN (IF IsLeap(y) THEN 29 ELSE 28)
    ELSE IF m \in {4, 6, 9, 11} THEN 30 ELSE 31

DaysInYear(y) == IF IsLeap(y) THEN 366 ELSE 365

RECURSIVE DaysBeforeYear(_)
\* Days from 2019-01-01 to the first day of year y (y >= 2019).
DaysBeforeYear(y) == IF y <= 2019 THEN 0 ELSE DaysInYear(y - 1) + DaysBeforeYear(y - 1)

\* Days from the first day of a common year to the first day of each month.
CommonYearDaysBefore == <<0, 31, 59, 90, 120, 151, 181, 212, 243, 273, 304, 334, 365>>

\* Days from the first day of year y to the first day of its month m
\* (m = 13: to the first day of the next year).
DaysBeforeMonth(y, m) ==
    CommonYearDaysBefore[m] + (IF m > 2 /\ IsLeap(y) THEN 1 ELSE 0)

RECURSIVE YearOfDay(_, _)
\* The year holding day number d (days since 2019-01-01), searching from y.
YearOfDay(d, y) == IF d < DaysBeforeYear(y + 1) THEN y ELSE YearOfDay(d, y + 1)

RECURSIVE MonthOfDay(_, _, _)
\* The month of year y holding day-of-year offset d, searching from m.
MonthOfDay(d, y, m) == IF d < DaysBeforeMonth(y, m + 1) THEN m ELSE MonthOfDay(d, y, m + 1)

\* The civil date and time of a local second count (seconds since
\* 2019-01-01T00:00 in that locality).
Civil(local) ==
    LET d  == local \div SecondsPerDay
        y  == YearOfDay(d, 2019)
        dy == d - DaysBeforeYear(y)
        m  == MonthOfDay(dy, y, 1)
    IN  [year |-> y, month |-> m, day |-> dy - DaysBeforeMonth(y, m) + 1,
         second |-> local % SecondsPerDay]

\* pytz.timezone(name): the zone's offset from UTC in seconds.  The zones
\* used have had one fixed offset for the whole period modelled.
UtcOffset(zone) ==
    CASE zone = "UTC" -> 0
      [] zone = "Asia/Kolkata" -> 5 * SecondsPerHour + 30 * 60
      [] zone = "Africa/Lagos" -> SecondsPerHour
      [] OTHER -> 0

\* settings.TIME_ZONE, the zone datetime.today() reports in.
ServerTimeZone == "UTC"

\* The zone names a user's calendar settings may hold ("" = not yet set).
TimeZones == {"", "Asia/Kolkata"}

\* dateutil.parser.parse of an ISO date-time with a UTC offset:
\* [year, month, day, hour, minute, offset (minutes)] -> instant.
ParseDateTime(t) ==
    (DaysBeforeYear(t.year) + DaysBeforeMonth(t.year, t.month) + (t.day - 1)) * SecondsPerDay
      + t.hour * SecondsPerHour + t.minute * 60 - t.offset * 60

\* time_zone.localize(parser.parse(date)): local midnight of a date in a zone.
LocalizeDate(t, zone) ==
    (DaysBeforeYear(t.year) + DaysBeforeMonth(t.year, t.month) + (t.day - 1)) * SecondsPerDay
      - UtcOffset(zone)

\* Variant of ExtractMonth: the month on the UTC calendar, the zone ignored.
ExtractMonthUtc(instant, zone) == Civil(instant).month

\* Extract('start_datetime', 'year'|'month', tzinfo=zone)
ExtractYear(instant, zone) == Civil(instant + UtcOffset(zone)).year

ExtractMonth(instant, zone) == Civil(instant + UtcOffset(zone)).month

(***************************************************************************)
(* Text                                                                    *)
(***************************************************************************)
LowerCaseLetters ==
    {"a", "b", "c", "d", "e", "f", "g", "h", "i", "j", "k", "l", "m",
     "n", "o", "p", "q", "r", "s", "t", "u", "v", "w", "x", "y", "z"}

UpperToLower ==
    [A |-> "a", B |-> "b", C |-> "c", D |-> "d", E |-> "e", F |-> "f", G |-> "g",
     H |-> "h", I |-> "i", J |-> "j", K |-> "k", L |-> "l", M |-> "m", N |-> "n",
     O |-> "o", P |-> "p", Q |-> "q", R |-> "r", S |-> "s", T |-> "t", U |-> "u",
     V |-> "v", W |-> "w", X |-> "x", Y |-> "y", Z |-> "z"]

\* str.islower() of one character: true of the lower-case letters only.
IsLower(c) == c \in LowerCaseLetters

\* str.lower() of one character.
LowerChar(c) == IF c \in DOMAIN UpperToLower THEN UpperToLower[c] ELSE c

Lower(s) == [i \in 1..Len(s) |-> LowerChar(s[i])]

\* Substring test.
Contains(s, p) ==
    \E i \in 0..(Len(s) - Len(p)) : SubSeq(s, i + 1, i + Len(p)) = p

\* The summary__icontains lookup: case-insensitive substring match.
IContains(s, p) == Contains(Lower(s), Lower(p))

RECURSIVE SnakeCase(_)
\* ''.join(i if i.islower() else '_' + i.lower() for i in s)
SnakeCase(s) ==
    IF s = <<>> THEN <<>>
    ELSE (IF IsLower(Head(s)) THEN <<Head(s)>> ELSE <<"_", LowerChar(Head(s))>>)
         \o SnakeCase(Tail(s))

\* google_calendar.ACCEPTED
ACCEPTED == <<"a", "c", "c", "e", "p", "t", "e", "d">>
DECLINED == <<"d", "e", "c", "l", "i", "n", "e", "d">>
NEEDS_ACTION == <<"n", "e", "e", "d", "s", "_", "a", "c", "t", "i", "o", "n">>
\* responseStatus values as the calendar API sends them
NeedsActionApi == <<"n", "e", "e", "d", "s", "A", "c", "t", "i", "o", "n">>

(***************************************************************************)
(* Inputs: users, calendar API records, clock readings, search texts       *)
(***************************************************************************)
\* request.user of the report endpoint
ReportUser == "u1"
Users == {"u1", "u2"}

DateTime(y, mo, d, h, mi, off) ==
    [year |-> y, month |-> mo, day |-> d, hour |-> h, minute |-> mi, offset |-> off]

\* One entry of a record's 'attendees' list.
Guest(email, self, status) == [email |-> email, self |-> self, responseStatus |-> status]

\* One item of an events.list page.  all_day: start/end carry 'date', not 'dateTime'.
Record(id, status, summary, allDay, start, end, attendees) ==
    [id |-> id, status |-> status, summary |-> summary, all_day |-> allDay,
     start |-> start, end |-> end, attendees |-> attendees]

\* The records the calendar API may return for ReportUser.
Records ==
    { Record("e1", "confirmed", <<"S", "y", "n", "c">>, FALSE,
             DateTime(2019, 9, 10, 10, 0, 0), DateTime(2019, 9, 10, 11, 0, 0),
             << Guest("u1", TRUE, ACCEPTED), Guest("a", FALSE, ACCEPTED),
                Guest("b", FALSE, ACCEPTED), Guest("c", FALSE, ACCEPTED),
                Guest("d", FALSE, NeedsActionApi) >>),
      Record("e2", "confirmed", <<"s", "y", "n", "c", " ", "u", "p">>, FALSE,
             DateTime(2019, 11, 30, 23, 30, 0), DateTime(2019, 12, 1, 1, 30, 0),
             << Guest("a", FALSE, ACCEPTED), Guest("u1", TRUE, ACCEPTED),
                Guest("b", FALSE, ACCEPTED) >>),
      Record("e3", "confirmed", <<"R", "e", "v", "i", "e", "w">>, FALSE,
             DateTime(2020, 1, 5, 9, 0, 330), DateTime(2020, 1, 5, 10, 0, 330),
             << Guest("u1", TRUE, ACCEPTED), Guest("a", FALSE, ACCEPTED),
                Guest("d", FALSE, ACCEPTED) >>),
      Record("e4", "confirmed", <<"S", "y", "n", "c">>, TRUE,
             DateTime(2019, 9, 20, 0, 0, 0), DateTime(2019, 9, 21, 0, 0, 0),
             << Guest("u1", TRUE, DECLINED), Guest("b", FALSE, ACCEPTED) >>),
      Record("e5", "confirmed", <<"D", "e", "m", "o">>, FALSE,
             DateTime(2019, 12, 31, 23, 30, 0), DateTime(2020, 1, 1, 0, 0, 0),
             << Guest("u1", TRUE, ACCEPTED), Guest("a", FALSE, ACCEPTED),
                Guest("b", FALSE, ACCEPTED), Guest("c", FALSE, ACCEPTED) >>),
      Record("e6", "cancelled", <<"S", "y", "n", "c">>, FALSE,
             DateTime(2019, 9, 11, 10, 0, 0), DateTime(2019, 9, 11, 11, 0, 0),
             << Guest("u1", TRUE, ACCEPTED) >>) }

\* The records the calendar API may return for the other user.
OtherRecords ==
    { Record("x1", "confirmed", <<"S", "y", "n", "c">>, FALSE,
             DateTime(2019, 9, 12, 10, 0, 0), DateTime(2019, 9, 12, 11, 0, 0),
             << Guest("u2", TRUE, ACCEPTED), Guest("a", FALSE, ACCEPTED) >>) }

\* google_calendar.TENTATIVE
TENTATIVE == <<"t", "e", "n", "t", "a", "t", "i", "v", "e">>

\* A record whose attendees list has two entries without an 'email' key
\* (record.get('email', '') stores them with the empty email).
Standup ==
    Record("p1", "confirmed", <<"S", "t", "a", "n", "d", "u", "p">>, FALSE,
           DateTime(2019, 10, 1, 9, 0, 0), DateTime(2019, 10, 1, 9, 30, 0),
           << Guest("u1", TRUE, ACCEPTED), Guest("", FALSE, ACCEPTED),
              Guest("", FALSE, ACCEPTED), Guest("a", FALSE, ACCEPTED),
              Guest("b", FALSE, TENTATIVE) >>)

\* The record with event id of the reporting user's calendar.
RecordOf(id) == CHOOSE r \in Records : r.id = id

RecordsOf(user) == IF user = ReportUser THEN Records ELSE OtherRecords

\* The instants at which the clock is read.
ClockReadings ==
    { ParseDateTime(DateTime(2019, 11, 30, 23, 45, 0)),
      ParseDateTime(DateTime(2020, 1, 7, 12, 0, 0)) }

\* request.GET.get('search'): <<>> stands for an absent or empty parameter.
Searches == { <<>>, <<"s", "y", "n", "c">> }

(***************************************************************************)
(* scraper.py                                                              *)
(***************************************************************************)
RECURSIVE AttendeeRowsKeepSelf(_)
\* Variant of AttendeeRows: the user's own accepted entry is stored as well.
AttendeeRowsKeepSelf(guests) ==
    IF guests = <<>> THEN <<>>
    ELSE <<[email |-> Head(guests).email,
            response |-> SnakeCase(Head(guests).responseStatus)]>>
         \o AttendeeRowsKeepSelf(Tail(guests))

RECURSIVE AttendeeRows(_)
\* create_attendees: the Attendee rows of a record's attendees list: every
\* entry but the user's own accepted one.
AttendeeRows(guests) ==
    IF guests = <<>> THEN <<>>
    ELSE LET g   == Head(guests)
             row == [email |-> g.email, response |-> SnakeCase(g.responseStatus)]
         IN  (IF g.self /\ g.responseStatus = ACCEPTED THEN <<>> ELSE <<row>>)
             \o AttendeeRows(Tail(guests))

\* create_attendees: event.is_attendee after the loop.
IsAttendee(guests) ==
    \E i \in 1..Len(guests) : guests[i].self /\ guests[i].responseStatus = ACCEPTED

\* create_event and create_attendees together: the Event row (with its
\* Attendee rows) a record that is not cancelled ends up stored as.  zone is
\* user.cal_meta_data.time_zone.  copy stands for the primary key: it tells
\* apart the rows one record was stored as more than once.
EventRow(record, user, zone) ==
    LET tz == IF zone = "" THEN "UTC" ELSE zone
    IN  [user |-> user,
         event_id |-> record.id,
         copy |-> 1,
         summary |-> record.summary,
         start_datetime |-> IF record.all_day THEN LocalizeDate(record.start, tz)
                            ELSE ParseDateTime(record.start),
         end_datetime |-> IF record.all_day THEN LocalizeDate(record.end, tz)
                          ELSE ParseDateTime(record.end),
         is_attendee |-> IsAttendee(record.attendees),
         attendees |-> AttendeeRows(record.attendees)]

\* One commit, leaving the Event and Attendee tables as st.  late_write
\* records that the tables changed under the calculator instance alive.
Commit(st) ==
    /\ store' = st
    /\ late_write' = (late_write \/ (calc.live /\ st # store))

\* No call into scraper.py is in progress on a request slot.  keys is the
\* set of primary keys a delete has selected and not yet deleted.
NoScrape ==
    [pc |-> "idle", user |-> ReportUser, zone |-> "", pages |-> <<>>, page |-> 1,
     copy |-> 0, keys |-> {}]

\* The slot of a create_event(record, user) call that has ended: no call is
\* in progress; the arguments of the call and the key of the row it
\* inserted (0 when it inserted none) stay readable.
CallEnded(record, user, copy) ==
    [NoScrape EXCEPT !.user = user, !.pages = << <<record>> >>, !.copy = copy]

\* The primary key of an Event row.
Key(e) == <<e.user, e.event_id, e.copy>>

\* The key a new Event row of (user, id) gets: the least number that no
\* stored row, no create_event call in progress and no delete in progress
\* holds for that event (the database never hands out a key twice).
FreeCopy(st, user, id) ==
    LET used == {e.copy : e \in {x \in st : x.user = user /\ x.event_id = id}}
                  \cup {scrape[k].copy : k \in {i \in DOMAIN scrape :
                           /\ scrape[i].pc \in {"bulk_create", "save"}
                           /\ scrape[i].user = user
                           /\ scrape[i].pages[1][1].id = id}}
                  \cup {key[3] : key \in {x \in UNION {scrape[i].keys : i \in DOMAIN scrape} :
                                            x[1] = user /\ x[2] = id}}
    IN  CHOOSE c \in 1..(Cardinality(used) + 1) :
            c \notin used /\ \A d \in 1..(c - 1) : d \in used

\* record['summary'] of a record the API sent without that key raises
\* KeyError; the status is tested first, so a cancelled record never raises.
CreateEventRaises(record) ==
    record.status # "cancelled" /\ "summary" \notin DOMAIN record

\* The record a create_event call in progress was given.
CallRecord(j) == scrape[j].pages[1][1]

\* The Event row a create_event call in progress inserted, while it is stored.
CallRows(j) ==
    {e \in store : /\ e.user = scrape[j].user
                   /\ e.event_id = CallRecord(j).id
                   /\ e.copy = scrape[j].copy}

\* scraper.create_event(record, user), called on its own, up to the return
\* of its event.save(): a cancelled record returns at once and a record
\* without 'summary' raises KeyError, both with nothing stored; else the
\* Event row is inserted with is_attendee False and no Attendee rows.
CreateEventSave(j, record, user) ==
    /\ scrape[j].pc = "idle"
    /\ IF record.status = "cancelled" \/ CreateEventRaises(record)
       THEN /\ scrape' = [scrape EXCEPT ![j] = CallEnded(record, user, 0)]
            /\ UNCHANGED <<store, time_zone, clock, calc, pc, ne_result, ts_result,
                           att_result, late_write, served_stale>>
       ELSE LET zone == time_zone[user]
                copy == FreeCopy(store, user, record.id)
                row  == [EventRow(record, user, zone) EXCEPT
                            !.copy = copy, !.is_attendee = FALSE, !.attendees = <<>>]
            IN  /\ Cardinality(store) < MaxEvents
                /\ Commit(store \cup {row})
                /\ scrape' = [scrape EXCEPT ![j] =
                                 [pc |-> "bulk_create", user |-> user, zone |-> zone,
                                  pages |-> << <<record>> >>, page |-> 1, copy |-> copy,
                                  keys |-> {}]]
                /\ UNCHANGED <<time_zone, clock, calc, pc, ne_result, ts_result,
                               att_result, served_stale>>

\* create_attendees up to the return of Attendee.objects.bulk_create: the
\* Attendee rows are inserted (no query for an empty list); when the Event
\* row is gone, the foreign key fails and the call ends with the exception.
CreateAttendeesBulkCreate(j) ==
    /\ scrape[j].pc = "bulk_create"
    /\ LET rows == AttendeeRows(CallRecord(j).attendees)
       IN  IF rows # <<>> /\ CallRows(j) = {}
           THEN /\ scrape' = [scrape EXCEPT ![j] =
                                 CallEnded(CallRecord(j), scrape[j].user, scrape[j].copy)]
                /\ UNCHANGED <<store, late_write>>
           ELSE /\ Commit({IF e \in CallRows(j) THEN [e EXCEPT !.attendees = rows] ELSE e :
                              e \in store})
                /\ scrape' = [scrape EXCEPT ![j].pc = "save"]
    /\ UNCHANGED <<time_zone, clock, calc, pc, ne_result, ts_result, att_result,
                   served_stale>>

\* create_attendees: the closing event.save(), which writes is_attendee (an
\* UPDATE, or an INSERT when the UPDATE finds no row), and the return.
CreateAttendeesSave(j) ==
    /\ scrape[j].pc = "save"
    /\ LET record == CallRecord(j)
           again  == [EventRow(record, scrape[j].user, scrape[j].zone) EXCEPT
                         !.copy = scrape[j].copy, !.attendees = <<>>]
       IN  Commit(IF CallRows(j) = {}
                  THEN store \cup {again}
                  ELSE {IF e \in CallRows(j)
                        THEN [e EXCEPT !.is_attendee = IsAttendee(record.attendees)]
                        ELSE e : e \in store})
    /\ scrape' = [scrape EXCEPT ![j] =
                     CallEnded(CallRecord(j), scrape[j].user, scrape[j].copy)]
    /\ UNCHANGED <<time_zone, clock, calc, pc, ne_result, ts_result, att_result,
                   served_stale>>

RECURSIVE InsertRecords(_, _, _, _)
\* for record in items: create_event(record, user), inside one transaction:
\* the tables after the loop.
InsertRecords(st, items, user, zone) ==
    IF items = <<>> THEN st
    ELSE LET record == Head(items)
             row    == EventRow(record, user, zone)
         IN  InsertRecords(IF record.status = "cancelled" THEN st
                           ELSE st \cup {[row EXCEPT !.copy = FreeCopy(st, user, record.id)]},
                           Tail(items), user, zone)

\* with transaction.atomic(): for record in resp['items']: create_event(...)
\* The tables after the block: all rows of the page, or none when one raises.
PageCommit(st, items, user, zone) ==
    IF \E i \in 1..Len(items) : CreateEventRaises(items[i])
    THEN st
    ELSE InsertRecords(st, items, user, zone)

\* store_events(user): user_meta_data = user.cal_meta_data, the read of the
\* user's meta data row; the time zone create_event localizes with is the
\* one of this read.
StoreEventsReadMetaData(j, user) ==
    /\ scrape[j].pc = "idle"
    /\ scrape' = [scrape EXCEPT ![j] =
                     [pc |-> "delete_attendees", user |-> user,
                      zone |-> time_zone[user],
                      pages |-> <<>>, page |-> 1, copy |-> 0, keys |-> {}]]
    /\ UNCHANGED <<store, time_zone, clock, calc, pc, ne_result, ts_result,
                   att_result, late_write, served_stale>>

\* store_events: the API client is built and the Attendee rows of the
\* user's events are deleted; a failed build ends the call with the
\* exception before anything is deleted.
StoreEventsDeleteAttendees(j) ==
    /\ scrape[j].pc = "delete_attendees"
    /\ \E built \in BOOLEAN :
          IF built
          THEN /\ Commit({IF e.user = scrape[j].user THEN [e EXCEPT !.attendees = <<>>]
                          ELSE e : e \in store})
               /\ scrape' = [scrape EXCEPT ![j].pc = "select_events"]
          ELSE /\ scrape' = [scrape EXCEPT ![j] = NoScrape]
               /\ UNCHANGED <<store, late_write>>
    /\ UNCHANGED <<time_zone, clock, calc, pc, ne_result, ts_result, att_result,
                   served_stale>>

\* store_events: Event.objects.filter(user=user).delete(), first part.  The
\* Attendee rows that reference Event make it a collecting delete: the
\* user's Event rows are selected and their primary keys kept.
StoreEventsSelectEvents(j) ==
    /\ scrape[j].pc = "select_events"
    /\ scrape' = [scrape EXCEPT
                     ![j].pc = "delete_events",
                     ![j].keys = {Key(e) : e \in {x \in store : x.user = scrape[j].user}}]
    /\ UNCHANGED <<store, time_zone, clock, calc, pc, ne_result, ts_result,
                   att_result, late_write, served_stale>>

\* store_events: Event.objects.filter(user=user).delete(), second part: one
\* transaction deletes the Attendee rows of the selected keys and the Event
\* rows of the selected keys.  A row committed since the select stays.
StoreEventsDeleteEvents(j) ==
    /\ scrape[j].pc = "delete_events"
    /\ Commit({e \in store : Key(e) \notin scrape[j].keys})
    /\ scrape' = [scrape EXCEPT ![j].pc = "paging", ![j].keys = {}]
    /\ UNCHANGED <<time_zone, clock, calc, pc, ne_result, ts_result, att_result,
                   served_stale>>

\* One turn of "while req": the page request, the atomic block, list_next.
\* pages is what the calendar API lists for the call, fixed by the first
\* request.  A failed request or a raising record ends store_events with
\* the exception.
StoreEventsPage(j, pages) ==
    /\ scrape[j].pc = "paging"
    /\ scrape[j].page > 1 => pages = scrape[j].pages
    /\ \E answered \in BOOLEAN :
          LET call   == scrape[j]
              items  == pages[call.page]
              raised == \E i \in 1..Len(items) : CreateEventRaises(items[i])
          IN  IF ~ answered
              THEN /\ scrape' = [scrape EXCEPT ![j] = NoScrape]
                   /\ UNCHANGED <<store, late_write>>
              ELSE /\ Commit(PageCommit(store, items, call.user, call.zone))
                   /\ scrape' = [scrape EXCEPT ![j] =
                                    IF raised THEN NoScrape
                                    ELSE [call EXCEPT
                                            !.pages = pages,
                                            !.page = @ + 1,
                                            !.pc = IF call.page = Len(pages)
                                                   THEN "settings" ELSE "paging"]]
    /\ UNCHANGED <<time_zone, clock, calc, pc, ne_result, ts_result, att_result,
                   served_stale>>

\* The value of the calendar setting 'timezone'.
SettingsTimeZone == "Asia/Kolkata"

\* store_events(user) after the last page: the settings request, the save of
\* user_meta_data.time_zone and the return; a failed request ends the call
\* with the exception.
StoreEventsSetTimeZone(j) ==
    /\ scrape[j].pc = "settings"
    /\ \E answered \in BOOLEAN :
          time_zone' = IF answered
                       THEN [time_zone EXCEPT ![scrape[j].user] = SettingsTimeZone]
                       ELSE time_zone
    /\ scrape' = [scrape EXCEPT ![j] = NoScrape]
    /\ UNCHANGED <<store, clock, calc, pc, ne_result, ts_result, att_result,
                   late_write, served_stale>>

\* Time passes.
Tick ==
    /\ \E t \in ClockReadings : t > clock /\ clock' = t
    /\ UNCHANGED <<scrape, store, time_zone, calc, pc, ne_result, ts_result,
                   att_result, late_write, served_stale>>

(***************************************************************************)
(* api.py: ReportCalculator                                                *)
(***************************************************************************)
\* A cached_property that has not been read yet / that holds a value.
NotComputed(blank) == [ready |-> FALSE, value |-> blank]
Computed(v) == [ready |-> TRUE, value |-> v]

\* No ReportCalculator has been built yet.
NoCalc ==
    [live |-> FALSE, user |-> ReportUser, time_zone |-> "UTC",
     last_3_month_date |-> [year |-> 2019, month |-> 1],
     search |-> <<>>, event_now |-> 0, attendee_now |-> 0,
     monthly_events_df |-> NotComputed({}),
     number_of_weeks |-> NotComputed(0),
     attendees_counts |-> NotComputed(<<>>)]

\* datetime.today() - relativedelta(months=2, day=1, hour=0, minute=0,
\* second=0, microsecond=0): two months back, then the first of that month.
Last3MonthDate(today) ==
    IF today.month - 2 < 1
    THEN [year |-> today.year - 1, month |-> today.month - 2 + 12]
    ELSE [year |-> today.year, month |-> today.month - 2]

\* datetime.today(): the naive civil time of the server's zone.
Today(now) == Civil(now + UtcOffset(ServerTimeZone))

\* ReportCalculator.__init__(user, **extra_filters).  The clock is read three
\* times: today by datetime.today() for the window, event_now and
\* attendee_now by the two datetime.now(pytz.utc) of the querysets.
NewCalc(user, zone, search, today, event_now, attendee_now) ==
    [live |-> TRUE, user |-> user,
     time_zone |-> IF zone # "" THEN zone ELSE "UTC",
     last_3_month_date |-> Last3MonthDate(Today(today)),
     search |-> search, event_now |-> event_now, attendee_now |-> attendee_now,
     monthly_events_df |-> NotComputed({}),
     number_of_weeks |-> NotComputed(0),
     attendees_counts |-> NotComputed(<<>>)]

\* Variant of EventQueryset: without the is_attendee=True filter.
EventQuerysetAnyInvitation(st, c) ==
    {e \in st : /\ e.user = c.user
                /\ e.start_datetime <= c.event_now
                /\ (c.search # <<>> => IContains(e.summary, c.search))}

\* self.event_queryset, evaluated on the store st.
EventQueryset(st, c) ==
    {e \in st : /\ e.user = c.user
                /\ e.is_attendee
                /\ e.start_datetime <= c.event_now
                /\ (c.search # <<>> => IContains(e.summary, c.search))}

\* self.attendee_queryset, evaluated on the store st: the Attendee rows as
\* <<event, position>>.
AttendeeQueryset(st, c) ==
    {<<e, i>> \in UNION {{e} \X (1..Len(e.attendees)) : e \in st} :
        /\ e.user = c.user
        /\ e.is_attendee
        /\ e.attendees[i].response = ACCEPTED
        /\ e.start_datetime <= c.attendee_now
        /\ (c.search # <<>> => IContains(e.summary, c.search))}

\* _monthly_events_df: one row per (year, month) of the user's zone.
MonthlyEventsDf(st, c) ==
    LET qs == EventQueryset(st, c)
        key(e) == <<ExtractYear(e.start_datetime, c.time_zone),
                    ExtractMonth(e.start_datetime, c.time_zone)>>
        group(k) == {e \in qs : key(e) = k}
    IN  {[year |-> k[1], month |-> k[2],
          duration |-> SumOver(group(k), [e \in group(k) |-> e.end_datetime - e.start_datetime]),
          count |-> Cardinality(group(k))] : k \in {key(e) : e \in qs}}

\* Min('start_datetime') over a non-empty queryset.
MinStart(qs) == CHOOSE t \in {e.start_datetime : e \in qs} :
                    \A e \in qs : t <= e.start_datetime

\* Variant of NumberOfWeeks: the earliest start taken over all the user's
\* events instead of over the event queryset.
NumberOfWeeksOfAllEvents(st, c, now) ==
    LET qs == {e \in st : e.user = c.user}
    IN  IF qs # {}
        THEN RoundHalfEven((now - MinStart(qs)) \div SecondsPerDay, 7)
        ELSE 0

\* Variant of NumberOfWeeks: total_days // 7, the weeks cut off, not rounded.
NumberOfWeeksFloor(st, c, now) ==
    LET qs == EventQueryset(st, c)
    IN  IF qs # {}
        THEN ((now - MinStart(qs)) \div SecondsPerDay) \div 7
        ELSE 0

\* _number_of_weeks, with now the clock read inside it.
NumberOfWeeks(st, c, now) ==
    LET qs == EventQueryset(st, c)
    IN  IF qs # {}
        THEN RoundHalfEven((now - MinStart(qs)) \div SecondsPerDay, 7)
        ELSE 0

\* The (email, count) pairs of _attendees_counts.
AttendeeCountRows(st, c) ==
    LET qs == AttendeeQueryset(st, c)
        email(r) == r[1].attendees[r[2]].email
    IN  {[email |-> m, count |-> Cardinality({r \in qs : email(r) = m})] :
            m \in {email(r) : r \in qs}}

\* order_by('-count'): the orders in which the database may deliver rows;
\* rows of equal count come in any order.
OrderByCountDesc(rows) ==
    LET n == Cardinality(rows)
    IN  {s \in [1..n -> rows] :
            /\ \A i, j \in 1..n : i # j => s[i] # s[j]
            /\ \A i, j \in 1..n : i < j => s[i].count >= s[j].count}

\* _attendees_counts: the Series the query may produce.
AttendeesCounts(st, c) == OrderByCountDesc(AttendeeCountRows(st, c))

\* f"{x['year']}-{x['month']:02}"
MonthLabel(r) == ToString(r.year) \o "-" \o Pad2(r.month)

\* str(pandas.Timedelta) of a whole number of seconds >= 0.
TimedeltaStr(seconds) ==
    LET d == seconds \div SecondsPerDay
        r == seconds % SecondsPerDay
    IN  ToString(d) \o " days " \o Pad2(r \div SecondsPerHour) \o ":"
        \o Pad2((r % SecondsPerHour) \div 60) \o ":" \o Pad2(r % 60)

\* DataFrame.nlargest(n, 'value', keep='all'): the rows whose value is at
\* least the n-th largest value (every row when there are at most n).
NLargest(n, rows) ==
    IF Cardinality(rows) <= n THEN rows
    ELSE LET v == CHOOSE x \in {r.value : r \in rows} :
                      /\ Cardinality({r \in rows : r.value > x}) < n
                      /\ Cardinality({r \in rows : r.value >= x}) >= n
         IN  {r \in rows : r.value >= v}

\* Variant of NSmallest: keep='first', one row even when others tie with it.
NSmallestKeepFirst(n, rows) ==
    IF rows = {} THEN {}
    ELSE {CHOOSE r \in rows : \A q \in rows : r.value <= q.value}

\* DataFrame.nsmallest(n, 'value', keep='all')
NSmallest(n, rows) ==
    IF Cardinality(rows) <= n THEN rows
    ELSE LET v == CHOOSE x \in {r.value : r \in rows} :
                      /\ Cardinality({r \in rows : r.value < x}) < n
                      /\ Cardinality({r \in rows : r.value <= x}) >= n
         IN  {r \in rows : r.value <= v}

\* The rows with the 'month' column replaced by the label and 'year' dropped.
Labelled(rows) == {[month |-> MonthLabel(r), value |-> r.value] : r \in rows}

\* Variant of Last3MonthsFilter: a calendar comparison of (year, month).
Last3MonthsCalendarFilter(rows, since) ==
    {r \in rows : r.year > since.year \/ (r.year = since.year /\ r.month >= since.month)}

\* monthly_events_df[(year >= last_3_month_date.year) & (month >= last_3_month_date.month)]
Last3MonthsFilter(rows, since) ==
    {r \in rows : r.year >= since.year /\ r.month >= since.month}

RECURSIVE SortByYearMonth(_)
\* sort_values(['year', 'month']) followed by the labelling and to_dict.
SortByYearMonth(rows) ==
    IF rows = {} THEN <<>>
    ELSE LET first == CHOOSE r \in rows : \A q \in rows :
                          \/ r.year < q.year
                          \/ (r.year = q.year /\ r.month <= q.month)
         IN  <<[month |-> MonthLabel(first), value |-> first.value]>>
             \o SortByYearMonth(rows \ {first})

\* The monthly rollup with one metric column renamed to 'value'.
ValueRows(df, column) ==
    {[year |-> r.year, month |-> r.month,
      value |-> IF column = "count" THEN r.count ELSE r.duration] : r \in df}

TotalValue(rows) == SumOver(rows, [r \in rows |-> r.value])

\* Series.map(str) on a column of Timedelta values.
MapStr(entries) == {[month |-> e.month, value |-> TimedeltaStr(e.value)] : e \in entries}
MapStrSeq(entries) ==
    [i \in 1..Len(entries) |-> [month |-> entries[i].month,
                                value |-> TimedeltaStr(entries[i].value)]]

\* Variant of EventsWeeklyAverage: truncated, not rounded.
EventsWeeklyAverageTruncated(total, week_count) ==
    IF week_count # 0 THEN (100 * total) \div week_count ELSE 0

\* np.round(total / week_count, 2) in hundredths, as computed in IEEE 754
\* doubles: q = total / week_count rounded to a double, q * 100 rounded to a
\* double, then rint (halves to even).  The roundings show only when
\* 100 * total / week_count is exactly n/2 for an odd n: q is then
\* n/200 + c * ulp(q), with c = -s/25 for s <= 12 and (25 - s)/25 otherwise,
\* s = n * 2^(49 - e) mod 25 and e the binary exponent of q; q * 100 leaves
\* the halfway point n/2 when 100 * |c| * ulp(q) exceeds half an ulp of n/2,
\* that is when the exponents differ by 6 and |c| > 0.32.
RoundHundredths(total, week_count) ==
    LET n   == (200 * total) \div week_count
        tie == total > 0 /\ (200 * total) % week_count = 0 /\ n % 2 = 1
        e   == FloorLog2(n, 200)
        eh  == FloorLog2(n, 2)
        s   == (n * (Pow2((49 - e) % 20) % 25)) % 25
    IN  IF tie /\ eh - e = 6 /\ s \in 9..12 THEN (n - 1) \div 2
        ELSE IF tie /\ eh - e = 6 /\ s \in 13..16 THEN (n + 1) \div 2
        ELSE RoundHalfEven(100 * total, week_count)

\* number_of_events()['weekly_average'], in hundredths:
\* np.round(total / week_count, 2) when week_count is truthy, else 0.
EventsWeeklyAverage(total, week_count) ==
    IF week_count # 0 THEN RoundHundredths(total, week_count) ELSE 0

\* Variant of TimeWeeklyAverage: truncated, not rounded.
TimeWeeklyAverageTruncated(total, week_count) ==
    IF week_count # 0
    THEN [is_string |-> TRUE, text |-> TimedeltaStr(total \div week_count)]
    ELSE [is_string |-> FALSE, text |-> "0"]

\* time_spent()['weekly_average']: str(Timedelta(seconds=np.round(total /
\* week_count))) when week_count is truthy, else the number 0.
TimeWeeklyAverage(total, week_count) ==
    IF week_count # 0
    THEN [is_string |-> TRUE, text |-> TimedeltaStr(RoundHalfEven(total, week_count))]
    ELSE [is_string |-> FALSE, text |-> "0"]

\* The dict number_of_events() returns, from the two memoized views.
NumberOfEvents(df, week_count, since) ==
    LET rows == ValueRows(df, "count")
    IN  [called |-> TRUE,
         total |-> TotalValue(rows),
         last_3_months |-> SortByYearMonth(Last3MonthsFilter(rows, since)),
         most |-> Labelled(NLargest(1, rows)),
         least |-> Labelled(NSmallest(1, rows)),
         weekly_average |-> EventsWeeklyAverage(TotalValue(rows), week_count)]

\* The dict time_spent() returns, from the two memoized views.
TimeSpent(df, week_count, since) ==
    LET rows == ValueRows(df, "duration")
    IN  [called |-> TRUE,
         total |-> TimedeltaStr(TotalValue(rows)),
         last_3_months |-> MapStrSeq(SortByYearMonth(Last3MonthsFilter(rows, since))),
         most |-> MapStr(Labelled(NLargest(1, rows))),
         least |-> MapStr(Labelled(NSmallest(1, rows))),
         weekly_average |-> TimeWeeklyAverage(TotalValue(rows), week_count)]

RECURSIVE InsertDesc(_, _)
\* Insert x into a sequence sorted by descending count, after its equals.
InsertDesc(x, sorted) ==
    IF sorted = <<>> THEN <<x>>
    ELSE IF Head(sorted).count >= x.count
         THEN <<Head(sorted)>> \o InsertDesc(x, Tail(sorted))
         ELSE <<x>> \o sorted

RECURSIVE SortDesc(_)
\* Stable sort by descending count.
SortDesc(series) ==
    IF series = <<>> THEN <<>>
    ELSE InsertDesc(series[Len(series)], SortDesc(SubSeq(series, 1, Len(series) - 1)))

\* Variant of SeriesNLargest: keep='first', never more than n entries.
SeriesNLargestKeepFirst(n, series) ==
    LET sorted == SortDesc(series)
    IN  IF Len(sorted) <= n THEN sorted ELSE SubSeq(sorted, 1, n)

\* Series.nlargest(n, keep='all'): the entries whose count is at least the
\* n-th largest count, by descending count, equal counts in Series order.
SeriesNLargest(n, series) ==
    LET sorted == SortDesc(series)
    IN  IF Len(sorted) <= n THEN sorted
        ELSE SelectSeq(sorted, LAMBDA x : x.count >= sorted[n].count)

\* The dict attendee() returns, from the memoized Series.
Attendee(series) ==
    LET top == SeriesNLargest(3, series)
    IN  [called |-> TRUE,
         top_attendees |-> [i \in 1..Len(top) |->
                               [name |-> top[i].email, number_of_events |-> top[i].count]]]

\* No call has returned yet on the instance.
NoEventsResult ==
    [called |-> FALSE, total |-> 0, last_3_months |-> <<>>, most |-> {}, least |-> {},
     weekly_average |-> 0]
NoTimeResult ==
    [called |-> FALSE, total |-> "", last_3_months |-> <<>>, most |-> {}, least |-> {},
     weekly_average |-> [is_string |-> FALSE, text |-> ""]]
NoAttendeeResult == [called |-> FALSE, top_attendees |-> <<>>]

(***************************************************************************)
(* Requests on the report endpoint                                         *)
(***************************************************************************)
\* ReportAPI.get: calculator = ReportCalculator(user, **extra_filters).
\* Time may pass before each of the three clock reads of __init__; the clock
\* is left at the last reading.
Construct(search) ==
    /\ pc = "idle"
    /\ \E today, event_now, attendee_now \in ClockReadings :
          /\ clock <= today /\ today <= event_now /\ event_now <= attendee_now
          /\ calc' = NewCalc(ReportUser, time_zone[ReportUser], search,
                             today, event_now, attendee_now)
          /\ clock' = attendee_now
    /\ ne_result' = NoEventsResult
    /\ ts_result' = NoTimeResult
    /\ att_result' = NoAttendeeResult
    /\ late_write' = FALSE
    /\ served_stale' = FALSE
    /\ UNCHANGED <<scrape, store, time_zone, pc>>

\* Reading self._monthly_events_df: the query runs on the first read only.
ReadMonthlyEventsDf ==
    calc' = IF calc.monthly_events_df.ready THEN calc
            ELSE [calc EXCEPT !.monthly_events_df = Computed(MonthlyEventsDf(store, calc))]

\* Variant of ReadNumberOfWeeks: a plain property, computed on every read.
ReadNumberOfWeeksEveryTime ==
    calc' = [calc EXCEPT !.number_of_weeks = Computed(NumberOfWeeks(store, calc, clock))]

\* Reading self._number_of_weeks: the query runs on the first read only.
ReadNumberOfWeeks ==
    calc' = IF calc.number_of_weeks.ready THEN calc
            ELSE [calc EXCEPT !.number_of_weeks = Computed(NumberOfWeeks(store, calc, clock))]

\* The memoized monthly rollup / number of weeks / attendee counts is no
\* longer what its query would produce now.
StaleMonthlyEventsDf ==
    calc.monthly_events_df.ready
    /\ calc.monthly_events_df.value # MonthlyEventsDf(store, calc)
StaleNumberOfWeeks ==
    calc.number_of_weeks.ready
    /\ calc.number_of_weeks.value # NumberOfWeeks(store, calc, clock)
StaleAttendeesCounts ==
    calc.attendees_counts.ready
    /\ {calc.attendees_counts.value[i] : i \in 1..Len(calc.attendees_counts.value)}
         # AttendeeCountRows(store, calc)

\* number_of_events(), up to and including its read of the monthly rollup
NumberOfEventsBegin ==
    /\ calc.live /\ pc = "idle"
    /\ ReadMonthlyEventsDf
    /\ served_stale' = (served_stale \/ (ne_result.called /\ StaleMonthlyEventsDf))
    /\ pc' = "number_of_events"
    /\ UNCHANGED <<scrape, store, time_zone, clock, ne_result, ts_result, att_result, late_write>>

\* number_of_events(), from its read of the number of weeks to its return
NumberOfEventsEnd ==
    /\ pc = "number_of_events"
    /\ ReadNumberOfWeeks
    /\ served_stale' = (served_stale \/ (ne_result.called /\ StaleNumberOfWeeks))
    /\ ne_result' = NumberOfEvents(calc'.monthly_events_df.value,
                                   calc'.number_of_weeks.value, calc.last_3_month_date)
    /\ pc' = "idle"
    /\ UNCHANGED <<scrape, store, time_zone, clock, ts_result, att_result, late_write>>

\* time_spent(), up to and including its read of the monthly rollup
TimeSpentBegin ==
    /\ calc.live /\ pc = "idle"
    /\ ReadMonthlyEventsDf
    /\ served_stale' = (served_stale \/ (ts_result.called /\ StaleMonthlyEventsDf))
    /\ pc' = "time_spent"
    /\ UNCHANGED <<scrape, store, time_zone, clock, ne_result, ts_result, att_result, late_write>>

\* time_spent(), from its read of the number of weeks to its return
TimeSpentEnd ==
    /\ pc = "time_spent"
    /\ ReadNumberOfWeeks
    /\ served_stale' = (served_stale \/ (ts_result.called /\ StaleNumberOfWeeks))
    /\ ts_result' = TimeSpent(calc'.monthly_events_df.value,
                              calc'.number_of_weeks.value, calc.last_3_month_date)
    /\ pc' = "idle"
    /\ UNCHANGED <<scrape, store, time_zone, clock, ne_result, att_result, late_write>>

\* attendee(): the query runs on the first read of self._attendees_counts only.
AttendeeCall ==
    /\ calc.live /\ pc = "idle"
    /\ \E series \in (IF calc.attendees_counts.ready
                      THEN {calc.attendees_counts.value}
                      ELSE AttendeesCounts(store, calc)) :
          /\ calc' = [calc EXCEPT !.attendees_counts = Computed(series)]
          /\ att_result' = Attendee(series)
    /\ served_stale' = (served_stale \/ (att_result.called /\ StaleAttendeesCounts))
    /\ UNCHANGED <<scrape, store, time_zone, clock, pc, ne_result, ts_result, late_write>>

(***************************************************************************)
(* The system                                                              *)
(***************************************************************************)
\* The store and the settings after the other user's calendar was ingested.
OtherUsersStore == {EventRow(r, "u2", "") : r \in OtherRecords}

\* The request slot of the OAuth callback whose store_events call fills the
\* reporting user's store.
Slots == {1}

\* What events.list returns for the reporting user's calendar, page by page.
Listings ==
    { << <<RecordOf("e1"), RecordOf("e2"), RecordOf("e6"), RecordOf("e3")>> >>,
      << <<RecordOf("e1"), RecordOf("e2")>>, <<RecordOf("e5"), RecordOf("e4")>> >>,
      << <<RecordOf("e4"), RecordOf("e3")>>, <<Standup>> >> }

Init ==
    /\ store = OtherUsersStore
    /\ time_zone \in {[u \in Users |-> IF u = ReportUser THEN z ELSE ""] : z \in TimeZones}
    /\ clock = CHOOSE t \in ClockReadings : \A u \in ClockReadings : t <= u
    /\ calc = NoCalc
    /\ pc = "idle"
    /\ ne_result = NoEventsResult
    /\ ts_result = NoTimeResult
    /\ att_result = NoAttendeeResult
    /\ late_write = FALSE
    /\ served_stale = FALSE
    /\ scrape = [j \in Slots |-> NoScrape]

\* The steps of store_events for the reporting user (OAuth2CallBackAPI.get),
\* the clock, and the steps of ReportAPI.get.
Next ==
    \/ \E j \in DOMAIN scrape : StoreEventsReadMetaData(j, ReportUser)
    \/ \E j \in DOMAIN scrape : StoreEventsDeleteAttendees(j)
    \/ \E j \in DOMAIN scrape : StoreEventsSelectEvents(j)
    \/ \E j \in DOMAIN scrape : StoreEventsDeleteEvents(j)
    \/ \E j \in DOMAIN scrape : \E pages \in Listings : StoreEventsPage(j, pages)
    \/ \E j \in DOMAIN scrape : StoreEventsSetTimeZone(j)
    \/ Tick
    \/ \E search \in Searches : Construct(search)
    \/ NumberOfEventsBegin
    \/ NumberOfEventsEnd
    \/ TimeSpentBegin
    \/ TimeSpentEnd
    \/ AttendeeCall

Spec == Init /\ [][Next]_vars

(***************************************************************************)
(* One request from its construction on                                    *)
(***************************************************************************)
\* The rows of the store when the calculator is built: what store_events
\* stored for two of the user's records.
StoreAtConstruction ==
    {EventRow(r, ReportUser, time_zone[ReportUser]) : r \in {q \in Records : q.id \in {"e1", "e2"}}}

\* ReportAPI.get has just built its calculator; no report method has run.
InitConstructed ==
    /\ time_zone \in {[u \in Users |-> IF u = ReportUser THEN z ELSE ""] : z \in TimeZones}
    /\ store = StoreAtConstruction
    /\ clock = CHOOSE t \in ClockReadings : \A u \in ClockReadings : t <= u
    /\ calc = NewCalc(ReportUser, time_zone[ReportUser], <<>>, clock, clock, clock)
    /\ pc = "idle"
    /\ ne_result = NoEventsResult
    /\ ts_result = NoTimeResult
    /\ att_result = NoAttendeeResult
    /\ late_write = FALSE
    /\ served_stale = FALSE
    /\ scrape = [j \in Slots |-> NoScrape]

\* The report methods of the instance, the clock and the steps of a
\* store_events call of another request; no second instance is built.
NextConstructed ==
    \/ \E j \in DOMAIN scrape : StoreEventsReadMetaData(j, ReportUser)
    \/ \E j \in DOMAIN scrape : StoreEventsDeleteAttendees(j)
    \/ \E j \in DOMAIN scrape : StoreEventsSelectEvents(j)
    \/ \E j \in DOMAIN scrape : StoreEventsDeleteEvents(j)
    \/ \E j \in DOMAIN scrape : \E pages \in Listings : StoreEventsPage(j, pages)
    \/ \E j \in DOMAIN scrape : StoreEventsSetTimeZone(j)
    \/ Tick
    \/ NumberOfEventsBegin
    \/ NumberOfEventsEnd
    \/ TimeSpentBegin
    \/ TimeSpentEnd
    \/ AttendeeCall

SpecConstructed == InitConstructed /\ [][NextConstructed]_vars

(***************************************************************************)
(* store_events calls of two OAuth callbacks, for either user              *)
(***************************************************************************)
\* A record as the API sends it for an event without a title: no 'summary'.
WithoutSummary(record) == [f \in DOMAIN record \ {"summary"} |-> record[f]]

\* What events.list may return for a user, page by page, records without a
\* title and an all-day record among them.
UntitledListings(user) ==
    IF user = ReportUser
    THEN { << <<RecordOf("e2"), WithoutSummary(RecordOf("e6"))>>, <<RecordOf("e5")>> >>,
           << <<RecordOf("e3")>>, <<RecordOf("e5"), WithoutSummary(RecordOf("e2"))>> >>,
           << <<Standup>> >>,
           << <<RecordOf("e4")>> >> }
    ELSE { << <<r>> >> : r \in OtherRecords }

\* The store before store_events is called: empty, or what earlier
\* ingestions stored for the two users.
StoresBefore ==
    { {},
      {EventRow(RecordOf("e1"), ReportUser, ""), EventRow(RecordOf("e4"), ReportUser, "")}
        \cup OtherUsersStore }

\* The request slots of two OAuth callbacks.
CallbackSlots == {1, 2}

InitStoreEvents ==
    /\ time_zone = [u \in Users |-> ""]
    /\ store \in StoresBefore
    /\ clock = CHOOSE t \in ClockReadings : \A u \in ClockReadings : t >= u
    /\ calc = NoCalc
    /\ pc = "idle"
    /\ ne_result = NoEventsResult
    /\ ts_result = NoTimeResult
    /\ att_result = NoAttendeeResult
    /\ late_write = FALSE
    /\ served_stale = FALSE
    /\ scrape = [j \in CallbackSlots |-> NoScrape]

NextStoreEvents ==
    \/ \E j \in DOMAIN scrape : \E user \in Users : StoreEventsReadMetaData(j, user)
    \/ \E j \in DOMAIN scrape : StoreEventsDeleteAttendees(j)
    \/ \E j \in DOMAIN scrape : StoreEventsSelectEvents(j)
    \/ \E j \in DOMAIN scrape : StoreEventsDeleteEvents(j)
    \/ \E j \in DOMAIN scrape : \E pages \in UntitledListings(scrape[j].user) :
          StoreEventsPage(j, pages)
    \/ \E j \in DOMAIN scrape : StoreEventsSetTimeZone(j)

SpecStoreEvents == InitStoreEvents /\ [][NextStoreEvents]_vars

(***************************************************************************)
(* create_event called on its own                                          *)
(***************************************************************************)
InitCreateEvent ==
    /\ time_zone \in {[u \in Users |-> IF u = ReportUser THEN z ELSE ""] : z \in TimeZones}
    /\ store = {}
    /\ clock = CHOOSE t \in ClockReadings : \A u \in ClockReadings : t >= u
    /\ calc = NoCalc
    /\ pc = "idle"
    /\ ne_result = NoEventsResult
    /\ ts_result = NoTimeResult
    /\ att_result = NoAttendeeResult
    /\ late_write = FALSE
    /\ served_stale = FALSE
    /\ scrape = [j \in CallbackSlots |-> NoScrape]

\* The records create_event is called with: those of the user's calendar,
\* and for the reporting user an event and a cancelled event without a title.
CreateEventRecords(user) ==
    RecordsOf(user)
      \cup (IF user = ReportUser
            THEN {WithoutSummary(RecordOf("e2")), WithoutSummary(RecordOf("e6"))}
            ELSE {})

NextCreateEvent ==
    \/ \E j \in DOMAIN scrape : \E user \in Users : \E record \in CreateEventRecords(user) :
          CreateEventSave(j, record, user)
    \/ \E j \in DOMAIN scrape : CreateAttendeesBulkCreate(j)
    \/ \E j \in DOMAIN scrape : CreateAttendeesSave(j)

SpecCreateEvent == InitCreateEvent /\ [][NextCreateEvent]_vars

(***************************************************************************)
(* Properties                                                              *)
(***************************************************************************)
\* The events of the store the reports of the instance are to count: the
\* reporting user's, attended, started by the instance's construction-time
\* now, and matching the search text when there is one.
EligibleEvents ==
    {e \in store : /\ e.user = ReportUser
                   /\ e.is_attendee
                   /\ e.start_datetime <= calc.event_now
                   /\ (calc.search = <<>> \/ IContains(e.summary, calc.search))}

\* The (year, month) of an instant on the wall clock of the instance's zone.
LocalYearMonth(instant) ==
    LET local == Civil(instant + (IF calc.time_zone = "Asia/Kolkata"
                                  THEN 5 * 3600 + 1800 ELSE 0))
    IN  <<local.year, local.month>>

\* The step in which the instance's monthly rollup is computed.
RollupComputed == ~ calc.monthly_events_df.ready /\ calc'.monthly_events_df.ready

\* "YYYY-MM" with a zero-padded month.
YearMonthText(y, m) == ToString(y) \o "-" \o (IF m < 10 THEN "0" ELSE "") \o ToString(m)

\* C1: the monthly rollup, when computed, partitions the eligible events of
\* the store: each bucket counts the eligible events of its (year, month),
\* every eligible event falls in one bucket, the counts add up to the number
\* of eligible events; and number_of_events()['total'] is that sum.
C1_TotalCountsEligibleEvents ==
    /\ [][RollupComputed =>
            LET df == calc'.monthly_events_df.value
            IN  /\ \A b \in df :
                      b.count = Cardinality({e \in EligibleEvents :
                                    LocalYearMonth(e.start_datetime) = <<b.year, b.month>>})
                /\ \A e \in EligibleEvents :
                      Cardinality({b \in df : <<b.year, b.month>>
                                    = LocalYearMonth(e.start_datetime)}) = 1
                /\ SumOver(df, [b \in df |-> b.count]) = Cardinality(EligibleEvents)]_vars
    /\ [](ne_result.called =>
            ne_result.total = SumOver(calc.monthly_events_df.value,
                                      [b \in calc.monthly_events_df.value |-> b.count]))

\* C1 witness: number_of_events() has returned a total of two on a store,
\* unchanged since construction, that also holds an event of another user
\* and an event of the user that starts after the cut-off.
C1_Witness ==
    /\ ne_result.called /\ ~ late_write
    /\ ne_result.total = 2
    /\ Cardinality(EligibleEvents) = 2
    /\ \E e \in store : e.user # ReportUser
    /\ \E e \in store : e.user = ReportUser /\ e.is_attendee
                          /\ e.start_datetime > calc.event_now

\* The bucket table of the instance with one metric as 'value'.
BucketValues(column) ==
    {[year |-> b.year, month |-> b.month,
      value |-> IF column = "count" THEN b.count ELSE b.duration] :
        b \in calc.monthly_events_df.value}

\* The buckets whose value no bucket exceeds / undercuts.
MaximalBuckets(buckets) == {b \in buckets : \A q \in buckets : q.value <= b.value}
MinimalBuckets(buckets) == {b \in buckets : \A q \in buckets : q.value >= b.value}

\* C2: 'most' is exactly the buckets holding the global maximum and 'least'
\* exactly those holding the global minimum, in number_of_events() (counts)
\* and in time_spent() (durations, rendered), each labelled "YYYY-MM".
C2_MostLeastAreAllExtremalBuckets ==
    /\ ne_result.called =>
          /\ ne_result.most =
                {[month |-> YearMonthText(b.year, b.month), value |-> b.value] :
                    b \in MaximalBuckets(BucketValues("count"))}
          /\ ne_result.least =
                {[month |-> YearMonthText(b.year, b.month), value |-> b.value] :
                    b \in MinimalBuckets(BucketValues("count"))}
    /\ ts_result.called =>
          /\ ts_result.most =
                {[month |-> YearMonthText(b.year, b.month), value |-> TimedeltaStr(b.value)] :
                    b \in MaximalBuckets(BucketValues("duration"))}
          /\ ts_result.least =
                {[month |-> YearMonthText(b.year, b.month), value |-> TimedeltaStr(b.value)] :
                    b \in MinimalBuckets(BucketValues("duration"))}

\* C2 witness: three buckets, two of them tied for the least time and both
\* outside the last-3-months window, one alone with the most; and the same
\* three buckets all tied on their event count.
C2_Witness ==
    /\ ne_result.called /\ ts_result.called
    /\ Cardinality(calc.monthly_events_df.value) = 3
    /\ Cardinality(ts_result.least) = 2
    /\ Cardinality(ts_result.most) = 1
    /\ Cardinality(ne_result.most) = 3
    /\ Len(ts_result.last_3_months) = 1

\* The collaborator counts of the instance, as a set of (email, count).
CollaboratorCounts ==
    {calc.attendees_counts.value[i] : i \in 1..Len(calc.attendees_counts.value)}

\* The count of the entry ranked 3rd by descending count (0 with fewer than
\* 3 entries, so that every entry reaches it).
ThirdPlaceCount ==
    IF Cardinality(CollaboratorCounts) < 3 THEN 0
    ELSE CHOOSE v \in {r.count : r \in CollaboratorCounts} :
            /\ Cardinality({r \in CollaboratorCounts : r.count > v}) < 3
            /\ Cardinality({r \in CollaboratorCounts : r.count >= v}) >= 3

\* C3: top_attendees is in descending order of count and holds exactly the
\* emails whose count reaches the 3rd-place count, each once with its count;
\* no collaborators gives the empty list.
C3_TopAttendeesKeepThirdPlaceTies ==
    att_result.called =>
        LET top == att_result.top_attendees
        IN  /\ \A i, j \in 1..Len(top) :
                  i < j => top[i].number_of_events >= top[j].number_of_events
            /\ \A i, j \in 1..Len(top) : i # j => top[i].name # top[j].name
            /\ {[email |-> top[i].name, count |-> top[i].number_of_events] : i \in 1..Len(top)}
                 = {r \in CollaboratorCounts : r.count >= ThirdPlaceCount}
            /\ (CollaboratorCounts = {} => top = <<>>)

\* C3 witness: four entries, because two emails tie for the 3rd place.
C3_Witness ==
    /\ att_result.called
    /\ Len(att_result.top_attendees) = 4
    /\ att_result.top_attendees[1].number_of_events > att_result.top_attendees[2].number_of_events
    /\ att_result.top_attendees[2].number_of_events > att_result.top_attendees[3].number_of_events

\* The first day of the month two calendar months before an instant, as
\* (year, month) on the server's calendar.
TwoMonthsBefore(now) ==
    LET today == Civil(now + UtcOffset(ServerTimeZone))
        index == today.year * 12 + (today.month - 1) - 2
    IN  [year |-> index \div 12, month |-> (index % 12) + 1]

\* The step in which ReportAPI.get builds its calculator.
Constructed ==
    /\ calc' # calc
    /\ ~ calc'.monthly_events_df.ready
    /\ ~ calc'.number_of_weeks.ready
    /\ ~ calc'.attendees_counts.ready

\* The window start the instance holds.
WindowStart == calc.last_3_month_date

\* The buckets passing the two independent comparisons against the window.
WindowBuckets(column) ==
    {b \in BucketValues(column) :
        b.year >= WindowStart.year /\ b.month >= WindowStart.month}

\* entries lists the buckets, each once, labelled, ascending by (year, month).
ListsAscending(entries, buckets, Render(_)) ==
    /\ Len(entries) = Cardinality(buckets)
    /\ {entries[i] : i \in 1..Len(entries)} =
          {[month |-> YearMonthText(b.year, b.month), value |-> Render(b.value)] : b \in buckets}
    /\ \A i, j \in 1..Len(entries) : i < j =>
          \E p, q \in buckets :
             /\ YearMonthText(p.year, p.month) = entries[i].month
             /\ YearMonthText(q.year, q.month) = entries[j].month
             /\ (p.year < q.year \/ (p.year = q.year /\ p.month < q.month))

\* C4: 'last_3_months' holds exactly the buckets with year >= window.year and
\* month >= window.month, sorted ascending by (year, month), in
\* number_of_events() and in time_spent(); the window of an instance is the
\* first of the month two calendar months before now, now being read while
\* the instance is built.
C4_Last3MonthsIsPointwiseWindow ==
    /\ [](ne_result.called =>
            ListsAscending(ne_result.last_3_months, WindowBuckets("count"), LAMBDA v : v))
    /\ [](ts_result.called =>
            ListsAscending(ts_result.last_3_months, WindowBuckets("duration"), TimedeltaStr))
    /\ [][Constructed =>
            \E now \in ClockReadings :
               /\ clock <= now /\ now <= clock'
               /\ calc'.last_3_month_date = TwoMonthsBefore(now)]_vars

\* C4 witness: now is in January 2020, the window starts in November 2019,
\* two of three buckets pass the comparisons.
C4_Witness ==
    /\ ne_result.called /\ ts_result.called
    /\ WindowStart = [year |-> 2019, month |-> 11]
    /\ Cardinality(calc.monthly_events_df.value) = 3
    /\ Len(ne_result.last_3_months) = 2
    /\ Len(ts_result.last_3_months) = 2

\* The three calendar months ending with the month of now: those from the
\* instance's window start on.
LastThreeCalendarMonths ==
    LET index == WindowStart.year * 12 + (WindowStart.month - 1)
    IN  {<<i \div 12, (i % 12) + 1>> : i \in index..(index + 2)}

\* C5 (as claimed): 'last_3_months' has one entry for each of the three
\* calendar months ending with now's month that has an eligible event.  It
\* is stated for a user whose zone is the server's, where "the month of now"
\* has one reading.
C5_Last3MonthsAreLastThreeCalendarMonths ==
    (ne_result.called /\ calc.time_zone = ServerTimeZone) =>
        {ne_result.last_3_months[i].month : i \in 1..Len(ne_result.last_3_months)}
          = {YearMonthText(b.year, b.month) :
                b \in {q \in calc.monthly_events_df.value :
                          <<q.year, q.month>> \in LastThreeCalendarMonths}}

\* C6: what a report method returned once it returns again on the same
\* instance, and a memoized view never changes once computed, whatever
\* happens to the store and the clock in between.
C6_ReportsAreIdempotent ==
    [][ /\ (ne_result.called /\ ne_result'.called) => ne_result' = ne_result
        /\ (ts_result.called /\ ts_result'.called) => ts_result' = ts_result
        /\ (att_result.called /\ att_result'.called) => att_result' = att_result
        /\ (calc.monthly_events_df.ready /\ calc'.monthly_events_df.ready)
              => calc'.monthly_events_df = calc.monthly_events_df
        /\ (calc.number_of_weeks.ready /\ calc'.number_of_weeks.ready)
              => calc'.number_of_weeks = calc.number_of_weeks
        /\ (calc.attendees_counts.ready /\ calc'.attendees_counts.ready)
              => calc'.attendees_counts = calc.attendees_counts ]_vars

\* C6 witness: all three reports have returned, one of them a second time
\* from a view the changed store or clock would no longer give.
C6_Witness ==
    /\ served_stale /\ pc = "idle"
    /\ ne_result.called /\ ts_result.called /\ att_result.called
    /\ late_write /\ clock > calc.event_now

\* The events eligible at the cut-off of the instance's attendee query.
EligibleForAttendees ==
    {e \in store : /\ e.user = ReportUser
                   /\ e.is_attendee
                   /\ e.start_datetime <= calc.attendee_now
                   /\ (calc.search = <<>> \/ IContains(e.summary, calc.search))}

\* C7: with no eligible event in the store (unchanged since the instance
\* was built) every report is the zero report; eligible is taken at the
\* cut-off of the query the report runs.
C7_EmptyReports ==
    /\ (calc.live /\ ~ late_write /\ EligibleEvents = {}) =>
          /\ ne_result.called =>
                ne_result = [called |-> TRUE, total |-> 0, last_3_months |-> <<>>,
                             most |-> {}, least |-> {}, weekly_average |-> 0]
          /\ ts_result.called =>
                ts_result = [called |-> TRUE, total |-> "0 days 00:00:00",
                             last_3_months |-> <<>>, most |-> {}, least |-> {},
                             weekly_average |-> [is_string |-> FALSE, text |-> "0"]]
    /\ (calc.live /\ ~ late_write /\ EligibleForAttendees = {}) =>
          (att_result.called => att_result.top_attendees = <<>>)

\* C7 witness: the three reports have returned for a user whose two stored
\* events are both ineligible.
C7_Witness ==
    /\ calc.live /\ ~ late_write /\ EligibleEvents = {} /\ EligibleForAttendees = {}
    /\ ne_result.called /\ ts_result.called /\ att_result.called
    /\ Cardinality({e \in store : e.user = ReportUser}) = 2

\* The (year, month) after (y, m).
NextYearMonth(y, m) == IF m = 12 THEN <<y + 1, 1>> ELSE <<y, m + 1>>

\* C8: a new instance takes the user's zone, UTC when unset, and the rollup
\* has exactly the buckets of the local (year, month) of the eligible
\* events; an event starting at or after 23:30 UTC on the last day of a
\* month, for a user at +1:00 or more, is in the bucket of the next month.
C8_BucketsAreLocalMonths ==
    /\ [][Constructed =>
            calc'.time_zone = (IF time_zone[ReportUser] = "" THEN "UTC"
                               ELSE time_zone[ReportUser])]_vars
    /\ [][RollupComputed =>
            LET df == calc'.monthly_events_df.value
            IN  /\ {<<b.year, b.month>> : b \in df}
                     = {LocalYearMonth(e.start_datetime) : e \in EligibleEvents}
                /\ \A e \in EligibleEvents :
                      LET utc == Civil(e.start_datetime)
                      IN  (/\ utc.day = DaysInMonth(utc.year, utc.month)
                           /\ utc.second >= 23 * 3600 + 30 * 60
                           /\ calc.time_zone = "Asia/Kolkata")
                          => \E b \in df :
                                /\ <<b.year, b.month>> = NextYearMonth(utc.year, utc.month)
                                /\ b.count = Cardinality({x \in EligibleEvents :
                                      LocalYearMonth(x.start_datetime)
                                        = NextYearMonth(utc.year, utc.month)})]_vars

\* C8 witness: for a user in Asia/Kolkata the event starting 2019-12-31
\* 23:30 UTC is alone in the bucket of January 2020.
C8_Witness ==
    /\ calc.monthly_events_df.ready /\ ~ late_write
    /\ calc.time_zone = "Asia/Kolkata"
    /\ \E e \in EligibleEvents :
          /\ Civil(e.start_datetime).year = 2019
          /\ Civil(e.start_datetime).month = 12
          /\ Civil(e.start_datetime).day = 31
    /\ \E b \in calc.monthly_events_df.value :
          b.year = 2020 /\ b.month = 1 /\ b.count = 1

\* C9: number_of_events()['weekly_average'] (in hundredths) is total / weeks
\* to the nearest hundredth when weeks > 0, and 0 when weeks or total is 0.
C9_EventsWeeklyAverage ==
    ne_result.called =>
        LET weeks == calc.number_of_weeks.value
            avg   == ne_result.weekly_average
        IN  /\ weeks >= 0
            /\ weeks > 0 => 2 * Abs(100 * ne_result.total - avg * weeks) <= weeks
            /\ (weeks = 0 \/ ne_result.total = 0) => avg = 0
            /\ avg >= 0

\* C9 witness: a total that the number of weeks does not divide evenly.
C9_Witness ==
    /\ ne_result.called
    /\ calc.number_of_weeks.value > 0
    /\ ne_result.total > 0
    /\ ne_result.weekly_average * calc.number_of_weeks.value # 100 * ne_result.total

\* The total duration, in seconds, of the instance's bucket table.
TotalSeconds ==
    SumOver(calc.monthly_events_df.value,
            [b \in calc.monthly_events_df.value |-> b.duration])

\* C10: time_spent()['weekly_average'] is the duration string of total
\* seconds / weeks to the nearest second when weeks > 0 (the zero duration
\* for an empty bucket table), and the number 0 when weeks is 0.
C10_TimeWeeklyAverage ==
    ts_result.called =>
        LET weeks == calc.number_of_weeks.value
            avg   == ts_result.weekly_average
        IN  /\ weeks > 0 =>
                 /\ avg.is_string
                 /\ \E n \in {TotalSeconds \div weeks, TotalSeconds \div weeks + 1} :
                       /\ 2 * Abs(TotalSeconds - n * weeks) <= weeks
                       /\ avg.text = TimedeltaStr(n)
                 /\ calc.monthly_events_df.value = {} => avg.text = "0 days 00:00:00"
            /\ weeks = 0 => (~ avg.is_string /\ avg.text = "0")

\* C10 witness: a total duration that the number of weeks does not divide.
C10_Witness ==
    /\ ts_result.called
    /\ calc.number_of_weeks.value > 0
    /\ TotalSeconds % calc.number_of_weeks.value # 0
    /\ ts_result.weekly_average.is_string

\* The attendee entries the calendar API flags as the reporting user's own.
OwnEntries ==
    UNION {{r.attendees[i] : i \in {j \in 1..Len(r.attendees) : r.attendees[j].self}} :
              r \in Records}

\* C11: after any ingestions, neither the collaborator counts nor
\* attendee()['top_attendees'] hold an entry flagged as the reporting user's
\* own, whatever the response status of that entry.
C11_OwnEntryNeverCounted ==
    /\ calc.attendees_counts.ready =>
          \A r \in CollaboratorCounts : r.email \notin {g.email : g \in OwnEntries}
    /\ att_result.called =>
          \A i \in 1..Len(att_result.top_attendees) :
              att_result.top_attendees[i].name \notin {g.email : g \in OwnEntries}

\* C11 witness: attendee() has ranked collaborators on a store that holds
\* an event the user accepted (own entry flagged, accepted) and an event
\* whose stored attendee rows include the user's own declined entry.
C11_Witness ==
    /\ att_result.called /\ ~ late_write
    /\ att_result.top_attendees # <<>>
    /\ \E e \in EligibleEvents :
          \E r \in Records : r.id = e.event_id /\ \E g \in OwnEntries :
              \E i \in 1..Len(r.attendees) : r.attendees[i] = g /\ g.responseStatus = ACCEPTED
    /\ \E e \in store :
          /\ e.user = ReportUser
          /\ \E i \in 1..Len(e.attendees) :
                /\ e.attendees[i].email \in {g.email : g \in OwnEntries}
                /\ e.attendees[i].response = DECLINED

\* The events of a store content that the instance is to count.
EligibleIn(S) ==
    {e \in S : /\ e.user = ReportUser
               /\ e.is_attendee
               /\ e.start_datetime <= calc.event_now
               /\ (calc.search = <<>> \/ IContains(e.summary, calc.search))}

\* The earliest start among a non-empty set of events.
EarliestStart(events) ==
    CHOOSE t \in {e.start_datetime : e \in events} : \A e \in events : t <= e.start_datetime

\* round(d / 7) for the whole days d between the earliest start of events
\* and now; 0 for no events.  d / 7 is never halfway between two integers.
WeeksFrom(events, now) ==
    IF events = {} THEN 0
    ELSE LET d == (now - EarliestStart(events)) \div (24 * 3600)
         IN  CHOOSE w \in 0..(d + 1) : 2 * Abs(7 * w - d) < 7

\* The emails with an accepted attendee record on some of events, each with
\* the number of those events.
AcceptedEventCounts(events) ==
    LET on(e) == {e.attendees[i].email :
                     i \in {j \in 1..Len(e.attendees) : e.attendees[j].response = ACCEPTED}}
    IN  {[email |-> m, count |-> Cardinality({e \in events : m \in on(e)})] :
            m \in UNION {on(e) : e \in events}}

\* C12 (as claimed): whatever is written to the store after the instance
\* was built, its bucket table, its number of weeks and its collaborator
\* counts are those of the store content at construction.
C12_ReportsReflectStoreAtConstruction ==
    LET eligible == EligibleIn(StoreAtConstruction)
    IN  /\ calc.monthly_events_df.ready =>
              /\ {<<b.year, b.month>> : b \in calc.monthly_events_df.value}
                    = {LocalYearMonth(e.start_datetime) : e \in eligible}
              /\ \A b \in calc.monthly_events_df.value :
                    b.count = Cardinality({e \in eligible :
                                  LocalYearMonth(e.start_datetime) = <<b.year, b.month>>})
        /\ calc.number_of_weeks.ready =>
              \E now \in ClockReadings : calc.number_of_weeks.value = WeeksFrom(eligible, now)
        /\ calc.attendees_counts.ready =>
              CollaboratorCounts = AcceptedEventCounts(eligible)
        /\ ne_result.called => ne_result.total = Cardinality(eligible)

\* The step in which the instance's number of weeks is computed.
WeeksComputed == ~ calc.number_of_weeks.ready /\ calc'.number_of_weeks.ready

\* C13 (as claimed): one instant per instance: both query cut-offs and the
\* reference window take one reading of the clock at construction, and the
\* number of weeks is measured up to that same instant even when it is
\* computed later.
C13_OneNowPerInstance ==
    [][ /\ Constructed
           => /\ calc'.attendee_now = calc'.event_now
              /\ calc'.last_3_month_date = TwoMonthsBefore(calc'.event_now)
        /\ WeeksComputed =>
              calc'.number_of_weeks.value = WeeksFrom(EligibleEvents, calc.event_now) ]_vars

\* C14: the number of weeks, when computed, is round(d / 7) for the whole
\* days d from the earliest eligible event start to the clock at that
\* moment, 0 without eligible events; and it is never negative.
C14_NumberOfWeeks ==
    /\ [][WeeksComputed =>
            calc'.number_of_weeks.value = WeeksFrom(EligibleEvents, clock)]_vars
    /\ [](calc.number_of_weeks.ready => calc.number_of_weeks.value \in Nat)

\* C14 witness: a number of weeks that was rounded up (7 * weeks exceeds the
\* days elapsed even now), computed on a store unchanged since construction.
C14_Witness ==
    /\ calc.number_of_weeks.ready /\ ~ late_write
    /\ EligibleEvents # {}
    /\ 7 * calc.number_of_weeks.value
          > (clock - EarliestStart(EligibleEvents)) \div (24 * 3600)

\* The stored form of a responseStatus: snake_case for camelCase.
StoredResponse(status) ==
    IF status = <<"n", "e", "e", "d", "s", "A", "c", "t", "i", "o", "n">>
    THEN <<"n", "e", "e", "d", "s", "_", "a", "c", "t", "i", "o", "n">>
    ELSE status

\* The attendee entries of a record other than the user's own accepted one.
OtherEntries(record) ==
    SelectSeq(record.attendees,
              LAMBDA g : ~ (g.self /\ g.responseStatus = <<"a", "c", "c", "e", "p", "t", "e", "d">>))

\* The create_event call of slot j ends in this step, by a return or by an
\* exception.
CreateEventEnds(j) ==
    scrape'[j].pc = "idle" /\ scrape'[j] # scrape[j] /\ scrape'[j].pages # <<>>

\* C16 (as claimed): a create_event call on a cancelled record ends with the
\* store as it was; a call on any other record ends with the one Event it
\* inserted stored: its is_attendee is true exactly when the record lists an
\* own entry with responseStatus 'accepted'; its Attendee rows are the other
\* entries, in order, with the responseStatus in snake_case.  A call
\* inserts one Event, and no Event is ever stored for a cancelled record.
C16_CreateEventStoresRecord ==
    /\ [][\A j \in DOMAIN scrape : CreateEventEnds(j) =>
            LET record == scrape'[j].pages[1][1]
                rows   == {e \in store' : /\ e.user = scrape'[j].user
                                          /\ e.event_id = record.id
                                          /\ e.copy = scrape'[j].copy}
            IN  IF record.status = "cancelled"
                THEN store' = store /\ rows = {}
                ELSE /\ Cardinality(rows) = 1
                     /\ \A row \in rows :
                           /\ row.is_attendee <=>
                                 \E i \in 1..Len(record.attendees) :
                                    /\ record.attendees[i].self
                                    /\ record.attendees[i].responseStatus
                                          = <<"a", "c", "c", "e", "p", "t", "e", "d">>
                           /\ row.attendees =
                                 [i \in 1..Len(OtherEntries(record)) |->
                                     [email |-> OtherEntries(record)[i].email,
                                      response |->
                                         StoredResponse(OtherEntries(record)[i].responseStatus)]]
         ]_vars
    /\ [][Cardinality(store') # Cardinality(store) =>
            /\ Cardinality(store') = Cardinality(store) + 1
            /\ \E j \in DOMAIN scrape :
                  scrape[j].pc = "idle" /\ scrape'[j].pc = "bulk_create"]_vars
    /\ [](\A row \in store :
             \A record \in RecordsOf(row.user) :
                record.id = row.event_id => record.status # "cancelled")

\* C15 (as claimed): on a store unchanged since the instance was built, the
\* count of an email is the number of eligible events on which the email
\* has an accepted attendee record, each event counting once; so no count
\* exceeds number_of_events()['total'].  It is stated for an instance whose
\* two query cut-offs are the same instant.
C15_CountsAreEventsAttended ==
    (calc.attendees_counts.ready /\ ~ late_write
       /\ calc.attendee_now = calc.event_now) =>
        /\ CollaboratorCounts = AcceptedEventCounts(EligibleEvents)
        /\ ne_result.called => \A r \in CollaboratorCounts : r.count <= ne_result.total

\* The Event rows of the user the store_events call of slot j runs for.
ScrapedUserRows(j) == {e \in store : e.user = scrape[j].user}

\* The ids of the records of a page that are not cancelled.
PageIds(items) ==
    {items[i].id : i \in {k \in 1..Len(items) : items[k].status # "cancelled"}}

\* The ids of the records of pages 1..k of the call of slot j that are not
\* cancelled.
FetchedIds(j, k) == UNION {PageIds(scrape[j].pages[p]) : p \in 1..k}

\* C17 (as claimed): a store_events call keeps the user's events at exactly
\* the non-cancelled records of the pages committed so far: once the two
\* deletes are done none, after the last page all.  It commits a page whole
\* or not at all and leaves the store and the time zone as they are when a
\* request or a record fails; the time zone changes only in the completing
\* step, for the user of the call; a step of a call never changes the rows
\* of other users.
C17_StoreEventsFullReplace ==
    /\ [](\A j \in DOMAIN scrape :
            /\ scrape[j].pc \in {"select_events", "delete_events"} =>
                  \A e \in ScrapedUserRows(j) : e.attendees = <<>>
            /\ scrape[j].pc \in {"paging", "settings"} =>
                  /\ {e.event_id : e \in ScrapedUserRows(j)}
                        = FetchedIds(j, scrape[j].page - 1)
                  /\ Cardinality(ScrapedUserRows(j))
                        = Cardinality(FetchedIds(j, scrape[j].page - 1))
            /\ scrape[j].pc = "settings" => scrape[j].page - 1 = Len(scrape[j].pages))
    /\ [][ /\ \A j \in DOMAIN scrape :
                /\ (scrape[j].pc = "paging" /\ scrape'[j].pc = "idle")
                      => (store' = store /\ time_zone' = time_zone)
                /\ (scrape[j].pc = "paging" /\ scrape'[j].pc # "idle"
                      /\ scrape'[j].page # scrape[j].page)
                      => /\ scrape'[j].page = scrape[j].page + 1
                         /\ store \subseteq store'
                         /\ {e.event_id : e \in store' \ store}
                               = PageIds(scrape'[j].pages[scrape[j].page])
                         /\ \A e \in store' \ store : e.user = scrape[j].user
                /\ (scrape[j].pc = "settings" /\ scrape'[j].pc = "idle")
                      => /\ store' = store
                         /\ \A u \in Users \ {scrape[j].user} : time_zone'[u] = time_zone[u]
           /\ time_zone' # time_zone =>
                 \E j \in DOMAIN scrape : scrape[j].pc = "settings" /\ scrape'[j].pc = "idle"
           /\ store' # store =>
                 \E j \in DOMAIN scrape :
                    LET user == scrape[j].user
                    IN  /\ scrape[j].pc # "idle" /\ scrape'[j] # scrape[j]
                        /\ {e \in store' : e.user # user} = {e \in store : e.user # user}
         ]_vars

====
